---- MODULE Spec2Model ----
(***************************************************************************)
(* Controller layer of the library catalog (express-local-library):        *)
(* the Author controller, the BookInstance controller and the Book         *)
(* controller's read handlers, over a document store of Authors, Books and *)
(* BookInstances.                                                          *)
(*                                                                         *)
(* One action per exported handler.  A request is handled atomically: the  *)
(* action records the request in req, the calls the handler made on the    *)
(* response (res.render, res.redirect) and on next in out, in call order,  *)
(* and applies the handler's store mutation.  io holds the store calls the  *)
(* handler issued and fault the store call that rejects during the         *)
(* request ("none": every call succeeds).                                  *)
(*                                                                         *)
(* Strings are sequences of characters over a small alphabet in which each *)
(* character stands for a class: "a" and "x" letters, "1" a digit, " "     *)
(* whitespace, "<" markup.  escape() turns "<" into the entity "&lt;".     *)
(* A form value is a tagged record [t, v]: a string, a Date, undefined     *)
(* (the field was not submitted) or null.                                  *)
(***************************************************************************)
EXTENDS Integers, Sequences, FiniteSets, TLC

VARIABLES authors, books, genres, bookinstances, nextId, req, out, served,
          fault, io

vars ==
    <<authors, books, genres, bookinstances, nextId, req, out, served, fault, io>>

\* Number of requests served in one run.
MaxRequests == 3

-----------------------------------------------------------------------------
(* Values                                                                  *)

Str(s) == [t |-> "string", v |-> s]
Date(s) == [t |-> "date", v |-> s]
Undefined == [t |-> "undefined", v |-> <<>>]
NullValue == [t |-> "null", v |-> <<>>]

\* The result of a findById / findByIdAndUpdate that matched nothing.
Null == [null |-> TRUE]

\* express-validator hands every standard validator and sanitizer the value
\* as a string; undefined and null become "".
AsString(x) == IF x.t \in {"undefined", "null"} THEN <<>> ELSE x.v

\* optional({ values: "falsy" }): undefined, null and "" are falsy.
Falsy(x) == x.t \in {"undefined", "null"} \/ (x.t = "string" /\ x.v = <<>>)

RECURSIVE LTrim(_)
LTrim(s) == IF s # <<>> /\ Head(s) = " " THEN LTrim(Tail(s)) ELSE s

RECURSIVE RTrim(_)
RTrim(s) ==
    IF s # <<>> /\ s[Len(s)] = " " THEN RTrim(SubSeq(s, 1, Len(s) - 1)) ELSE s

\* .trim()
Trim(s) == RTrim(LTrim(s))

\* .escape()
Escape(s) == [i \in DOMAIN s |-> IF s[i] = "<" THEN "&lt;" ELSE s[i]]

\* .isLength({ min: 1 })
IsLength(s) == Len(s) >= 1

\* .isAlphanumeric()
IsAlphanumeric(s) == s # <<>> /\ \A i \in DOMAIN s : s[i] \in {"a", "x", "1"}

\* .isISO8601(): the digit-only strings stand for the ISO-8601 dates.
IsISO8601(s) == s # <<>> /\ \A i \in DOMAIN s : s[i] = "1"

\* .toDate(): a Date, or null when the string is no date.
ToDate(s) == IF IsISO8601(s) THEN Date(s) ELSE NullValue

Err(path, msg) == [path |-> path, msg |-> msg]

-----------------------------------------------------------------------------
(* Validation chains.  Each yields [value, errors]: the field as the chain *)
(* leaves it in req.body, and the errors it adds to validationResult(req). *)

\* body(f, msg).trim().isLength({ min: 1 }).escape()
RequiredChain(x, path, msg) ==
    LET t == Trim(AsString(x))
    IN  [value  |-> Str(Escape(t)),
         errors |-> IF IsLength(t) THEN <<>> ELSE <<Err(path, msg)>>]

\* body(f).trim().isLength({ min: 1 }).escape().withMessage(m1)
\*        .isAlphanumeric().withMessage(m2)
NameChain(x, path, m1, m2) ==
    LET t == Trim(AsString(x))
        e == Escape(t)
    IN  [value  |-> Str(e),
         errors |-> (IF IsLength(t) THEN <<>> ELSE <<Err(path, m1)>>)
                    \o (IF IsAlphanumeric(e) THEN <<>> ELSE <<Err(path, m2)>>)]

\* body(f, msg).optional({ values: "falsy" }).isISO8601().toDate()
OptionalDateChain(x, path, msg) ==
    IF Falsy(x)
    THEN [value |-> x, errors |-> <<>>]
    ELSE [value  |-> ToDate(AsString(x)),
          errors |-> IF IsISO8601(AsString(x)) THEN <<>> ELSE <<Err(path, msg)>>]

\* body(f).trim().escape()   and   body(f).escape()
TrimEscapeChain(x) == [value |-> Str(Escape(Trim(AsString(x)))), errors |-> <<>>]
EscapeChain(x) == [value |-> Str(Escape(AsString(x))), errors |-> <<>>]

-----------------------------------------------------------------------------
(* The data store: each collection is a set of documents.                  *)

FindById(coll, id) ==
    IF \E d \in coll : d._id = id THEN CHOOSE d \in coll : d._id = id ELSE Null

\* Book.find({ author: id })
BooksByAuthor(id) == {b \in books : b.author = id}

\* An id as it is written in a form field.
IdText(id) == <<ToString(id)>>

\* BookInstance.find({ book: id })
InstancesOfBook(id) == {i \in bookinstances : i.book = Str(IdText(id))}

\* A save that never reaches the store.
SaveSkipped(coll, doc) == coll

\* doc.save() of a new document
Save(coll, doc) == coll \cup {doc}

\* Model.findByIdAndRemove(id)
FindByIdAndRemove(coll, id) == {d \in coll : d._id # id}

\* An update that inserts the document when the id matches nothing.
FindByIdAndUpdateUpsert(coll, id, doc) == {d \in coll : d._id # id} \cup {doc}

\* Model.findByIdAndUpdate(id, doc, {}): no upsert; the stored document takes
\* the fields of doc.
FindByIdAndUpdate(coll, id, doc) ==
    IF \E d \in coll : d._id = id
    THEN {d \in coll : d._id # id} \cup {doc}
    ELSE coll

\* The virtual "url" of a document: its canonical detail path.
AuthorUrl(doc) == <<"/catalog/author/", doc._id>>
BookInstanceUrl(doc) == <<"/catalog/bookinstance/", doc._id>>

-----------------------------------------------------------------------------
(* Responses                                                               *)

Render(locals) == [call |-> "render", view |-> "index", locals |-> locals]
Redirect(url) == [call |-> "redirect", url |-> url]
NextErr(message, status) ==
    [call |-> "next", err |-> [message |-> message, status |-> status]]

\* The error express-async-handler forwards to next when the handler throws;
\* it carries no status (0).
Thrown(name) == NextErr(name, 0)

-----------------------------------------------------------------------------
(* Requests                                                                *)

\* The catalog the run starts from: one author with one book.
SeedAuthor ==
    [_id |-> 1, first_name |-> Str(<<"a">>), family_name |-> Str(<<"x">>),
     date_of_birth |-> Undefined, date_of_death |-> Undefined]
SeedBook == [_id |-> SeedAuthor._id + 1, author |-> SeedAuthor._id]

\* The ids a request can name: every id generated so far, and nextId, which
\* no document has.
PathIds == 1..nextId

\* Form submissions for the Author forms.
AuthorForms ==
    { \* names only, the dates not submitted; the first name padded
      [first_name |-> Str(<<" ", "a">>), family_name |-> Str(<<"x">>),
       date_of_birth |-> Undefined, date_of_death |-> Undefined],
      \* an ISO date and an empty date
      [first_name |-> Str(<<"a">>), family_name |-> Str(<<"x">>),
       date_of_birth |-> Str(<<"1">>), date_of_death |-> Str(<<>>)],
      \* first_name not submitted
      [first_name |-> Undefined, family_name |-> Str(<<"x">>),
       date_of_birth |-> Str(<<>>), date_of_death |-> Str(<<>>)],
      \* family_name blank
      [first_name |-> Str(<<"a">>), family_name |-> Str(<<" ">>),
       date_of_birth |-> Str(<<>>), date_of_death |-> Str(<<>>)],
      \* markup in a name
      [first_name |-> Str(<<"a">>), family_name |-> Str(<<"<">>),
       date_of_birth |-> Str(<<>>), date_of_death |-> Str(<<>>)],
      \* a date that is not ISO-8601
      [first_name |-> Str(<<"a">>), family_name |-> Str(<<"x">>),
       date_of_birth |-> Str(<<>>), date_of_death |-> Str(<<"x">>)] }

\* What every handler does besides its store calls: the request is recorded
\* with the calls made on res and next.
Respond(handler, id, body, calls) ==
    /\ served < MaxRequests
    /\ served' = served + 1
    /\ req' = [handler |-> handler, id |-> id, body |-> body]
    /\ out' = calls

NoBody == [none |-> TRUE]

\* The store calls the handler issued, in order; calls passed to one
\* Promise.all are issued together, in array order.
Issues(ops) == io' = ops

\* An awaited call, or one of the calls awaited jointly, rejects during this
\* request: the await throws and express-async-handler forwards the error.
Rejects(ops) == \E i \in DOMAIN ops : ops[i] = fault'

-----------------------------------------------------------------------------
(* Author controller                                                       *)

\* The list is rendered in family_name order; the order is not modelled.
author_list ==
    LET find == <<"Author.find">>
    IN  /\ Issues(find)
        /\ Respond("author_list", 0, NoBody,
                   IF Rejects(find)
                   THEN <<Thrown(fault')>>
                   ELSE <<Render([title |-> "Author List", author_list |-> authors,
                                  route |-> "author_list.ejs"])>>)
        /\ UNCHANGED <<authors, books, genres, bookinstances, nextId>>

author_detail(id) ==
    LET reads == <<"Author.findById", "Book.find">>
        author == FindById(authors, id)
        allBooksByAuthor == BooksByAuthor(id)
    IN  /\ Issues(reads)
        /\ Respond("author_detail", id, NoBody,
                   IF Rejects(reads)
                   THEN <<Thrown(fault')>>
                   ELSE IF author = Null
                   THEN <<NextErr("Author not found", 404)>>
                   ELSE <<Render([title |-> "Author Detail", author |-> author,
                                  author_books |-> allBooksByAuthor,
                                  route |-> "author_detail.ejs"])>>)
        /\ UNCHANGED <<authors, books, genres, bookinstances, nextId>>

author_create_get ==
    /\ Issues(<<>>)
    /\ Respond("author_create_get", 0, NoBody,
               <<Render([title |-> "Create Author", route |-> "author_form.ejs"])>>)
    /\ UNCHANGED <<authors, books, genres, bookinstances, nextId>>

\* The validation chains of author_create_post, over one submitted form.
AuthorCreateChains(body) ==
    [first_name    |-> NameChain(body.first_name, "first_name",
                           "First name must be specified.",
                           "First name has non-alphanumeric characters."),
     family_name   |-> NameChain(body.family_name, "family_name",
                           "Family name must be specified.",
                           "Family name has non-alphanumeric characters."),
     date_of_birth |-> OptionalDateChain(body.date_of_birth, "date_of_birth",
                           "Invalid date of birth"),
     date_of_death |-> OptionalDateChain(body.date_of_death, "date_of_death",
                           "Invalid date of death")]

\* validationResult(req).array() for an Author form
AuthorErrors(c) ==
    c.first_name.errors \o c.family_name.errors
        \o c.date_of_birth.errors \o c.date_of_death.errors

\* new Author({ ... }) from the sanitized body
NewAuthor(id, c) ==
    [_id |-> id,
     first_name    |-> c.first_name.value,
     family_name   |-> c.family_name.value,
     date_of_birth |-> c.date_of_birth.value,
     date_of_death |-> c.date_of_death.value]

\* A create handler that does not await the save: it redirects whether or
\* not the save rejects, and the rejection reaches nobody.
author_create_post_unawaited(body) ==
    LET c      == AuthorCreateChains(body)
        errors == AuthorErrors(c)
        author == NewAuthor(nextId, c)
        save   == <<"Author.save">>
    IN  /\ nextId' = nextId + 1
        /\ IF errors # <<>>
           THEN /\ Issues(<<>>)
                /\ Respond("author_create_post", 0, body,
                           <<Render([title |-> "Create Author", author |-> author,
                                     errors |-> errors,
                                     route |-> "author_form.ejs"])>>)
                /\ UNCHANGED authors
           ELSE /\ Issues(save)
                /\ authors' = IF Rejects(save) THEN authors
                              ELSE Save(authors, author)
                /\ Respond("author_create_post", 0, body,
                           <<Redirect(AuthorUrl(author))>>)
        /\ UNCHANGED <<books, genres, bookinstances>>

author_create_post(body) ==
    LET c      == AuthorCreateChains(body)
        errors == AuthorErrors(c)
        author == NewAuthor(nextId, c)
        save   == <<"Author.save">>
    IN  /\ nextId' = nextId + 1
        /\ IF errors # <<>>
           THEN /\ Issues(<<>>)
                /\ Respond("author_create_post", 0, body,
                           <<Render([title |-> "Create Author", author |-> author,
                                     errors |-> errors,
                                     route |-> "author_form.ejs"])>>)
                /\ UNCHANGED authors
           ELSE /\ Issues(save)
                /\ IF Rejects(save)
                   THEN /\ Respond("author_create_post", 0, body,
                                   <<Thrown(fault')>>)
                        /\ UNCHANGED authors
                   ELSE /\ authors' = Save(authors, author)
                        /\ Respond("author_create_post", 0, body,
                                   <<Redirect(AuthorUrl(author))>>)
        /\ UNCHANGED <<books, genres, bookinstances>>

\* The redirect does not end the handler: the render call follows it.
author_delete_get(id) ==
    LET reads == <<"Author.findById", "Book.find">>
        author == FindById(authors, id)
        allBooksByAuthor == BooksByAuthor(id)
        render == Render([title |-> "Delete Author", author |-> author,
                          author_books |-> allBooksByAuthor,
                          route |-> "author_delete.ejs"])
    IN  /\ Issues(reads)
        /\ Respond("author_delete_get", id, NoBody,
                   IF Rejects(reads)
                   THEN <<Thrown(fault')>>
                   ELSE IF author = Null
                   THEN <<Redirect(<<"/catalog/authors">>), render>>
                   ELSE <<render>>)
        /\ UNCHANGED <<authors, books, genres, bookinstances, nextId>>

\* The books are those of req.params.id; the author removed is
\* req.body.authorid.
author_delete_post(id, authorid) ==
    LET reads == <<"Author.findById", "Book.find">>
        remove == <<"Author.findByIdAndRemove">>
        author == FindById(authors, id)
        allBooksByAuthor == BooksByAuthor(id)
    IN  /\ IF Rejects(reads)
           THEN /\ Issues(reads)
                /\ Respond("author_delete_post", id, [authorid |-> authorid],
                           <<Thrown(fault')>>)
                /\ UNCHANGED authors
           ELSE IF allBooksByAuthor # {}
           THEN /\ Issues(reads)
                /\ Respond("author_delete_post", id, [authorid |-> authorid],
                           <<Render([title |-> "Delete Author", author |-> author,
                                     author_books |-> allBooksByAuthor,
                                     route |-> "author_delete.ejs"])>>)
                /\ UNCHANGED authors
           ELSE /\ Issues(reads \o remove)
                /\ IF Rejects(remove)
                   THEN /\ Respond("author_delete_post", id,
                                   [authorid |-> authorid], <<Thrown(fault')>>)
                        /\ UNCHANGED authors
                   ELSE /\ authors' = FindByIdAndRemove(authors, authorid)
                        /\ Respond("author_delete_post", id,
                                   [authorid |-> authorid],
                                   <<Redirect(<<"/catalog/authors">>)>>)
        /\ UNCHANGED <<books, genres, bookinstances, nextId>>

author_update_get(id) ==
    LET read == <<"Author.findById">>
        author == FindById(authors, id)
    IN  /\ Issues(read)
        /\ Respond("author_update_get", id, NoBody,
                   IF Rejects(read)
                   THEN <<Thrown(fault')>>
                   ELSE IF author = Null
                   THEN <<NextErr("author not found", 404)>>
                   ELSE <<Render([title |-> "Update Author", author |-> author,
                                  route |-> "author_form.ejs"])>>)
        /\ UNCHANGED <<authors, books, genres, bookinstances, nextId>>

\* The validation chains of author_update_post.
AuthorUpdateChains(body) ==
    [first_name    |-> RequiredChain(body.first_name, "first_name",
                           "First Name must not be empty."),
     family_name   |-> RequiredChain(body.family_name, "family_name",
                           "Family Name must not be empty"),
     date_of_birth |-> TrimEscapeChain(body.date_of_birth),
     date_of_death |-> TrimEscapeChain(body.date_of_death)]

\* findByIdAndUpdate resolves to the document it matched, or to null, and
\* reading url of null throws.
author_update_post(id, body) ==
    LET c      == AuthorUpdateChains(body)
        errors == AuthorErrors(c)
        author == NewAuthor(id, c)
        update == <<"Author.findByIdAndUpdate">>
        updatedAuthor == FindById(authors, id)
    IN  /\ IF errors # <<>>
           THEN /\ Issues(<<>>)
                /\ Respond("author_update_post", id, body,
                           <<Render([title |-> "Update Author", author |-> author,
                                     errors |-> errors,
                                     route |-> "author_form.ejs"])>>)
                /\ UNCHANGED authors
           ELSE /\ Issues(update)
                /\ IF Rejects(update)
                   THEN /\ Respond("author_update_post", id, body,
                                   <<Thrown(fault')>>)
                        /\ UNCHANGED authors
                   ELSE /\ authors' = FindByIdAndUpdate(authors, id, author)
                        /\ Respond("author_update_post", id, body,
                                   IF updatedAuthor = Null
                                   THEN <<Thrown("TypeError")>>
                                   ELSE <<Redirect(AuthorUrl(updatedAuthor))>>)
        /\ UNCHANGED <<books, genres, bookinstances, nextId>>

-----------------------------------------------------------------------------
(* BookInstance controller                                                 *)

\* Form submissions for the BookInstance forms.
BookInstanceForms ==
    { \* no due date submitted
      [book |-> Str(<<" ">> \o IdText(SeedBook._id)), imprint |-> Str(<<"x">>),
       status |-> Str(<<"a">>), due_back |-> Undefined],
      \* every field, markup in the imprint
      [book |-> Str(IdText(SeedBook._id)), imprint |-> Str(<<"<">>),
       status |-> Str(<<"a">>), due_back |-> Str(<<"1">>)],
      \* book empty
      [book |-> Str(<<>>), imprint |-> Str(<<"x">>),
       status |-> Str(<<"a">>), due_back |-> Str(<<"1">>)],
      \* imprint blank
      [book |-> Str(IdText(SeedBook._id)), imprint |-> Str(<<" ">>),
       status |-> Str(<<"a">>), due_back |-> Str(<<"1">>)],
      \* status empty
      [book |-> Str(IdText(SeedBook._id)), imprint |-> Str(<<"x">>),
       status |-> Str(<<>>), due_back |-> Str(<<"1">>)],
      \* a due date that is not ISO-8601
      [book |-> Str(IdText(SeedBook._id)), imprint |-> Str(<<"x">>),
       status |-> Str(<<"a">>), due_back |-> Str(<<"x">>)] }

bookinstance_list ==
    LET find == <<"BookInstance.find">>
    IN  /\ Issues(find)
        /\ Respond("bookinstance_list", 0, NoBody,
                   IF Rejects(find)
                   THEN <<Thrown(fault')>>
                   ELSE <<Render([title |-> "Book Instance List",
                                  bookinstance_list |-> bookinstances,
                                  route |-> "bookinstance_list.ejs"])>>)
        /\ UNCHANGED <<authors, books, genres, bookinstances, nextId>>

\* A detail handler that renders without testing for null.
bookinstance_detail_unchecked(id) ==
    LET read == <<"BookInstance.findById">>
        bookInstance == FindById(bookinstances, id)
    IN  /\ Issues(read)
        /\ Respond("bookinstance_detail", id, NoBody,
                   IF Rejects(read)
                   THEN <<Thrown(fault')>>
                   ELSE <<Render([title |-> "Book:", bookinstance |-> bookInstance,
                                  route |-> "bookinstance_detail.ejs"])>>)
        /\ UNCHANGED <<authors, books, genres, bookinstances, nextId>>

bookinstance_detail(id) ==
    LET read == <<"BookInstance.findById">>
        bookInstance == FindById(bookinstances, id)
    IN  /\ Issues(read)
        /\ Respond("bookinstance_detail", id, NoBody,
                   IF Rejects(read)
                   THEN <<Thrown(fault')>>
                   ELSE IF bookInstance = Null
                   THEN <<NextErr("Book copy not found", 404)>>
                   ELSE <<Render([title |-> "Book:", bookinstance |-> bookInstance,
                                  route |-> "bookinstance_detail.ejs"])>>)
        /\ UNCHANGED <<authors, books, genres, bookinstances, nextId>>

bookinstance_create_get ==
    LET find == <<"Book.find">>
    IN  /\ Issues(find)
        /\ Respond("bookinstance_create_get", 0, NoBody,
                   IF Rejects(find)
                   THEN <<Thrown(fault')>>
                   ELSE <<Render([title |-> "Create BookInstance",
                                  book_list |-> books,
                                  route |-> "bookinstance_form.ejs"])>>)
        /\ UNCHANGED <<authors, books, genres, bookinstances, nextId>>

\* The validation chains of bookinstance_create_post.
BookInstanceCreateChains(body) ==
    [book     |-> RequiredChain(body.book, "book", "Book must be specified"),
     imprint  |-> RequiredChain(body.imprint, "imprint",
                      "Imprint must be specified"),
     status   |-> EscapeChain(body.status),
     due_back |-> OptionalDateChain(body.due_back, "due_back", "Invalid date")]

\* The validation chains of bookinstance_update_post.
BookInstanceUpdateChains(body) ==
    [book     |-> RequiredChain(body.book, "book", "Book must not be empty."),
     imprint  |-> RequiredChain(body.imprint, "imprint",
                      "Imprint must not be empty"),
     due_back |-> RequiredChain(body.due_back, "due_back",
                      "Date must not be empty."),
     status   |-> RequiredChain(body.status, "status",
                      "Status must not be empty")]

\* validationResult(req).array() for a BookInstance form
BookInstanceErrors(c) ==
    c.book.errors \o c.imprint.errors \o c.due_back.errors \o c.status.errors

\* new BookInstance({ ... }) from the sanitized body
NewBookInstance(id, c) ==
    [_id |-> id,
     book     |-> c.book.value,
     imprint  |-> c.imprint.value,
     status   |-> c.status.value,
     due_back |-> c.due_back.value]

\* On errors the handler evaluates "title".exec(), which throws before
\* Book.find or res.render is called.
bookinstance_create_post(body) ==
    LET c      == BookInstanceCreateChains(body)
        errors == BookInstanceErrors(c)
        bookInstance == NewBookInstance(nextId, c)
        save   == <<"BookInstance.save">>
    IN  /\ nextId' = nextId + 1
        /\ IF errors # <<>>
           THEN /\ Issues(<<>>)
                /\ Respond("bookinstance_create_post", 0, body,
                           <<Thrown("TypeError")>>)
                /\ UNCHANGED bookinstances
           ELSE /\ Issues(save)
                /\ IF Rejects(save)
                   THEN /\ Respond("bookinstance_create_post", 0, body,
                                   <<Thrown(fault')>>)
                        /\ UNCHANGED bookinstances
                   ELSE /\ bookinstances' = Save(bookinstances, bookInstance)
                        /\ Respond("bookinstance_create_post", 0, body,
                                   <<Redirect(BookInstanceUrl(bookInstance))>>)
        /\ UNCHANGED <<authors, books, genres>>

\* The redirect does not end the handler: the render call follows it.
bookinstance_delete_get(id) ==
    LET read == <<"BookInstance.findById">>
        bookInstance == FindById(bookinstances, id)
        render == Render([title |-> "Delete Book Instance",
                          book_instance |-> bookInstance,
                          route |-> "bookinstance_delete.ejs"])
    IN  /\ Issues(read)
        /\ Respond("bookinstance_delete_get", id, NoBody,
                   IF Rejects(read)
                   THEN <<Thrown(fault')>>
                   ELSE IF bookInstance = Null
                   THEN <<Redirect(<<"/catalog/bookinstances">>), render>>
                   ELSE <<render>>)
        /\ UNCHANGED <<authors, books, genres, bookinstances, nextId>>

\* The instance looked up is req.params.id; the one removed is
\* req.body.bookinstanceid.
bookinstance_delete_post(id, bookinstanceid) ==
    LET read == <<"BookInstance.findById">>
        remove == <<"BookInstance.findByIdAndRemove">>
        bookInstance == FindById(bookinstances, id)
        body == [bookinstanceid |-> bookinstanceid]
    IN  /\ IF Rejects(read)
           THEN /\ Issues(read)
                /\ Respond("bookinstance_delete_post", id, body,
                           <<Thrown(fault')>>)
                /\ UNCHANGED bookinstances
           ELSE IF bookInstance = Null
           THEN /\ Issues(read)
                /\ Respond("bookinstance_delete_post", id, body,
                           <<Redirect(<<"/catalog/bookinstances">>)>>)
                /\ UNCHANGED bookinstances
           ELSE /\ Issues(read \o remove)
                /\ IF Rejects(remove)
                   THEN /\ Respond("bookinstance_delete_post", id, body,
                                   <<Thrown(fault')>>)
                        /\ UNCHANGED bookinstances
                   ELSE /\ bookinstances' =
                               FindByIdAndRemove(bookinstances, bookinstanceid)
                        /\ Respond("bookinstance_delete_post", id, body,
                                   <<Redirect(<<"/catalog/bookinstances">>)>>)
        /\ UNCHANGED <<authors, books, genres, nextId>>

bookinstance_update_get(id) ==
    LET reads == <<"BookInstance.findById", "Book.find">>
        bookInstance == FindById(bookinstances, id)
        allBooks == books
    IN  /\ Issues(reads)
        /\ Respond("bookinstance_update_get", id, NoBody,
                   IF Rejects(reads)
                   THEN <<Thrown(fault')>>
                   ELSE IF bookInstance = Null
                   THEN <<NextErr("book instance not found", 404)>>
                   ELSE <<Render([title |-> "Update Book Instance",
                                  bookinstance |-> bookInstance,
                                  book_list |-> allBooks,
                                  route |-> "bookinstance_form.ejs"])>>)
        /\ UNCHANGED <<authors, books, genres, bookinstances, nextId>>

\* An update handler that writes before it looks at the validation result.
bookinstance_update_post_unguarded(id, body) ==
    LET c      == BookInstanceUpdateChains(body)
        errors == BookInstanceErrors(c)
        bookInstance == NewBookInstance(id, c)
        update == <<"BookInstance.findByIdAndUpdate">>
        updatedBookInstance == FindById(bookinstances, id)
    IN  /\ Issues(update)
        /\ bookinstances' = FindByIdAndUpdate(bookinstances, id, bookInstance)
        /\ Respond("bookinstance_update_post", id, body,
                   IF errors # <<>>
                   THEN <<Render([title |-> "Update Book Instance",
                                  book_list |-> books, errors |-> errors,
                                  route |-> "bookinstance_update.ejs"])>>
                   ELSE IF updatedBookInstance = Null
                        THEN <<Thrown("TypeError")>>
                        ELSE <<Redirect(BookInstanceUrl(updatedBookInstance))>>)
        /\ UNCHANGED <<authors, books, genres, nextId>>

bookinstance_update_post(id, body) ==
    LET c      == BookInstanceUpdateChains(body)
        errors == BookInstanceErrors(c)
        bookInstance == NewBookInstance(id, c)
        find   == <<"Book.find">>
        update == <<"BookInstance.findByIdAndUpdate">>
        updatedBookInstance == FindById(bookinstances, id)
    IN  /\ IF errors # <<>>
           THEN /\ Issues(find)
                /\ Respond("bookinstance_update_post", id, body,
                           IF Rejects(find)
                           THEN <<Thrown(fault')>>
                           ELSE <<Render([title |-> "Update Book Instance",
                                          book_list |-> books,
                                          errors |-> errors,
                                          route |-> "bookinstance_update.ejs"])>>)
                /\ UNCHANGED bookinstances
           ELSE /\ Issues(update)
                /\ IF Rejects(update)
                   THEN /\ Respond("bookinstance_update_post", id, body,
                                   <<Thrown(fault')>>)
                        /\ UNCHANGED bookinstances
                   ELSE /\ bookinstances' =
                               FindByIdAndUpdate(bookinstances, id, bookInstance)
                        /\ Respond("bookinstance_update_post", id, body,
                                   IF updatedBookInstance = Null
                                   THEN <<Thrown("TypeError")>>
                                   ELSE <<Redirect(
                                            BookInstanceUrl(updatedBookInstance))>>)
        /\ UNCHANGED <<authors, books, genres, nextId>>

-----------------------------------------------------------------------------
(* Book controller                                                         *)

\* The five counts are passed to one Promise.all.
index ==
    LET counts == <<"Book.countDocuments", "BookInstance.countDocuments",
                    "BookInstance.countDocuments(Available)",
                    "Author.countDocuments", "Genre.countDocuments">>
    IN  /\ Issues(counts)
        /\ Respond("index", 0, NoBody,
                   IF Rejects(counts)
                   THEN <<Thrown(fault')>>
                   ELSE <<Render([title |-> "Local Library Home",
                             book_count |-> Cardinality(books),
                             book_instance_count |-> Cardinality(bookinstances),
                             book_instance_available_count |->
                                 Cardinality({i \in bookinstances :
                                                 i.status = Str(<<"a">>)}),
                             author_count |-> Cardinality(authors),
                             genre_count |-> Cardinality(genres),
                             route |-> "home.ejs"])>>)
        /\ UNCHANGED <<authors, books, genres, bookinstances, nextId>>

\* The list is rendered in title order; the order is not modelled.
book_list ==
    LET find == <<"Book.find">>
    IN  /\ Issues(find)
        /\ Respond("book_list", 0, NoBody,
                   IF Rejects(find)
                   THEN <<Thrown(fault')>>
                   ELSE <<Render([title |-> "Book List", book_list |-> books,
                                  route |-> "book_list.ejs"])>>)
        /\ UNCHANGED <<authors, books, genres, bookinstances, nextId>>

book_detail(id) ==
    LET reads == <<"Book.findById", "BookInstance.find">>
        book == FindById(books, id)
        bookInstances == InstancesOfBook(id)
    IN  /\ Issues(reads)
        /\ Respond("book_detail", id, NoBody,
                   IF Rejects(reads)
                   THEN <<Thrown(fault')>>
                   ELSE IF book = Null
                   THEN <<NextErr("Book not found", 404)>>
                   ELSE <<Render([title |-> "Book", book |-> book,
                                  book_instances |-> bookInstances,
                                  route |-> "book_detail.ejs"])>>)
        /\ UNCHANGED <<authors, books, genres, bookinstances, nextId>>

\* book_create_get ... book_update_post: res.send("NOT IMPLEMENTED: ...")
BookStubs ==
    {"book_create_get", "book_create_post", "book_delete_get",
     "book_delete_post", "book_update_get", "book_update_post"}

book_not_implemented(handler) ==
    /\ Issues(<<>>)
    /\ Respond(handler, 0, NoBody, <<[call |-> "send", text |-> "NOT IMPLEMENTED"]>>)
    /\ UNCHANGED <<authors, books, genres, bookinstances, nextId>>

-----------------------------------------------------------------------------
(* The system                                                              *)

Init ==
    /\ authors = {SeedAuthor}
    /\ genres = {}
    /\ books = {SeedBook}
    /\ bookinstances = {}
    /\ nextId = SeedBook._id + 1
    /\ req = [handler |-> "none", id |-> 0, body |-> NoBody]
    /\ out = <<>>
    /\ served = 0
    /\ fault = "none"
    /\ io = <<>>

\* Every store call of the request succeeds.
NoFault == fault' = "none"

Next ==
    \/ NoFault /\ author_list
    \/ \E id \in PathIds : NoFault /\ author_detail(id)
    \/ NoFault /\ author_create_get
    \/ \E body \in AuthorForms : NoFault /\ author_create_post(body)
    \/ \E id \in PathIds : NoFault /\ author_delete_get(id)
    \/ \E id \in PathIds, authorid \in PathIds :
           NoFault /\ author_delete_post(id, authorid)
    \/ \E id \in PathIds : NoFault /\ author_update_get(id)
    \/ \E id \in PathIds, body \in AuthorForms :
           NoFault /\ author_update_post(id, body)
    \/ NoFault /\ bookinstance_list
    \/ \E id \in PathIds : NoFault /\ bookinstance_detail(id)
    \/ NoFault /\ bookinstance_create_get
    \/ \E body \in BookInstanceForms : NoFault /\ bookinstance_create_post(body)
    \/ \E id \in PathIds : NoFault /\ bookinstance_delete_get(id)
    \/ \E id \in PathIds, bookinstanceid \in PathIds :
           NoFault /\ bookinstance_delete_post(id, bookinstanceid)
    \/ \E id \in PathIds : NoFault /\ bookinstance_update_get(id)
    \/ \E id \in PathIds, body \in BookInstanceForms :
           NoFault /\ bookinstance_update_post(id, body)
    \/ NoFault /\ index
    \/ NoFault /\ book_list
    \/ \E id \in PathIds : NoFault /\ book_detail(id)
    \/ \E handler \in BookStubs : NoFault /\ book_not_implemented(handler)

Spec == Init /\ [][Next]_vars

\* Number of requests served in one run in which store calls can fail.
MaxFaultyRequests == 2

\* During the request one of the store calls named rejects, or none does.
Faulty(ops) ==
    /\ served < MaxFaultyRequests
    /\ fault' \in ops \cup {"none"}

NextFail ==
    \/ Faulty({"Author.find"}) /\ author_list
    \/ \E id \in PathIds :
           Faulty({"Author.findById", "Book.find"}) /\ author_detail(id)
    \/ Faulty({}) /\ author_create_get
    \/ \E body \in AuthorForms :
           Faulty({"Author.save"}) /\ author_create_post(body)
    \/ \E id \in PathIds :
           Faulty({"Author.findById", "Book.find"}) /\ author_delete_get(id)
    \/ \E id \in PathIds, authorid \in PathIds :
           Faulty({"Author.findById", "Book.find", "Author.findByIdAndRemove"})
               /\ author_delete_post(id, authorid)
    \/ \E id \in PathIds : Faulty({"Author.findById"}) /\ author_update_get(id)
    \/ \E id \in PathIds, body \in AuthorForms :
           Faulty({"Author.findByIdAndUpdate"}) /\ author_update_post(id, body)
    \/ Faulty({"BookInstance.find"}) /\ bookinstance_list
    \/ \E id \in PathIds :
           Faulty({"BookInstance.findById"}) /\ bookinstance_detail(id)
    \/ Faulty({"Book.find"}) /\ bookinstance_create_get
    \/ \E body \in BookInstanceForms :
           Faulty({"BookInstance.save"}) /\ bookinstance_create_post(body)
    \/ \E id \in PathIds :
           Faulty({"BookInstance.findById"}) /\ bookinstance_delete_get(id)
    \/ \E id \in PathIds, bookinstanceid \in PathIds :
           Faulty({"BookInstance.findById", "BookInstance.findByIdAndRemove"})
               /\ bookinstance_delete_post(id, bookinstanceid)
    \/ \E id \in PathIds :
           Faulty({"BookInstance.findById", "Book.find"})
               /\ bookinstance_update_get(id)
    \/ \E id \in PathIds, body \in BookInstanceForms :
           Faulty({"Book.find", "BookInstance.findByIdAndUpdate"})
               /\ bookinstance_update_post(id, body)
    \/ Faulty({"Book.countDocuments", "BookInstance.countDocuments",
               "BookInstance.countDocuments(Available)",
               "Author.countDocuments", "Genre.countDocuments"}) /\ index
    \/ Faulty({"Book.find"}) /\ book_list
    \/ \E id \in PathIds :
           Faulty({"Book.findById", "BookInstance.find"}) /\ book_detail(id)
    \/ \E handler \in BookStubs : Faulty({}) /\ book_not_implemented(handler)

SpecFail == Init /\ [][NextFail]_vars

-----------------------------------------------------------------------------
(* Properties                                                              *)

Ids(coll) == {d._id : d \in coll}

\* A required text field with nothing in it once trimmed.
Missing(x) == Trim(AsString(x)) = <<>>

\* What each POST handler's own validation makes of a submitted form.
AuthorCreateAccepts(body) == AuthorErrors(AuthorCreateChains(body)) = <<>>
AuthorUpdateAccepts(body) == AuthorErrors(AuthorUpdateChains(body)) = <<>>
BookInstanceCreateAccepts(body) ==
    BookInstanceErrors(BookInstanceCreateChains(body)) = <<>>
BookInstanceUpdateAccepts(body) ==
    BookInstanceErrors(BookInstanceUpdateChains(body)) = <<>>

\* The sanitized form of a submitted text and of a submitted optional date.
SanitizedText(x) == Str(Escape(Trim(AsString(x))))
SanitizedDate(x) == IF Falsy(x) THEN x ELSE Date(AsString(x))

StoreUnchanged ==
    /\ authors' = authors
    /\ books' = books
    /\ genres' = genres
    /\ bookinstances' = bookinstances

\* The request being handled is the first one of the handler named.
Handles(handler) == req'.handler = handler /\ served' = served + 1

\* C1: author_delete_post never removes an Author that has at least one Book
\* at the time of the request, whatever the path id and the body's authorid;
\* and a request whose path id names an Author with books leaves the store
\* unchanged and renders the author_delete confirmation view with the books.
C1_AuthorWithBooksNotRemoved ==
    [][Handles("author_delete_post") =>
          /\ \A a \in authors : BooksByAuthor(a._id) # {} => a \in authors'
          /\ BooksByAuthor(req'.id) # {} =>
                /\ StoreUnchanged
                /\ Len(out') = 1
                /\ out'[1].call = "render"
                /\ out'[1].locals.route = "author_delete.ejs"
                /\ out'[1].locals.author_books = BooksByAuthor(req'.id)]_vars

\* C2: a delete_post whose path id names a stored entity without dependents
\* removes exactly that entity and redirects to the list path of its kind.
C2_DeleteRemovesTarget ==
    [][/\ (Handles("author_delete_post")
             /\ FindById(authors, req'.id) # Null
             /\ BooksByAuthor(req'.id) = {}) =>
            /\ authors' = authors \ {FindById(authors, req'.id)}
            /\ bookinstances' = bookinstances /\ books' = books
            /\ out' = <<Redirect(<<"/catalog/authors">>)>>
       /\ (Handles("bookinstance_delete_post")
             /\ FindById(bookinstances, req'.id) # Null) =>
            /\ bookinstances' = bookinstances \ {FindById(bookinstances, req'.id)}
            /\ authors' = authors /\ books' = books
            /\ out' = <<Redirect(<<"/catalog/bookinstances">>)>>]_vars

\* The collection a detail or update_get handler looks its path id up in.
LookupOf(handler) ==
    CASE handler \in {"author_detail", "author_update_get"} -> authors
      [] handler = "book_detail" -> books
      [] handler \in {"bookinstance_detail", "bookinstance_update_get"} ->
             bookinstances

\* C3: a detail or update_get request whose path id matches no stored entity
\* forwards one error with status 404 to next ("Book copy not found" for
\* bookinstance_detail), renders nothing, redirects nowhere and leaves the
\* store unchanged.
C3_NotFoundIs404 ==
    [][(/\ served' = served + 1
        /\ req'.handler \in {"author_detail", "book_detail", "bookinstance_detail",
                             "author_update_get", "bookinstance_update_get"}
        /\ FindById(LookupOf(req'.handler), req'.id) = Null) =>
          /\ Len(out') = 1
          /\ out'[1].call = "next"
          /\ out'[1].err.status = 404
          /\ req'.handler = "bookinstance_detail" =>
                 out'[1].err.message = "Book copy not found"
          /\ StoreUnchanged]_vars

C3_Witness ==
    /\ req.handler = "bookinstance_detail"
    /\ FindById(bookinstances, req.id) = Null
    /\ bookinstances # {}
    /\ out = <<NextErr("Book copy not found", 404)>>

\* C4: a create_post submission that passes validation adds exactly one
\* entity, under a new id, holding the sanitized submitted values (a date
\* that was not submitted stays unset), changes no stored entity and
\* redirects to the new entity's detail path.
C4_CreatePersistsOne ==
    [][/\ (Handles("author_create_post") /\ AuthorCreateAccepts(req'.body)) =>
            \E d \in authors' :
               /\ d._id \notin Ids(authors)
               /\ authors' = authors \cup {d}
               /\ Cardinality(authors') = Cardinality(authors) + 1
               /\ d.first_name = SanitizedText(req'.body.first_name)
               /\ d.family_name = SanitizedText(req'.body.family_name)
               /\ d.date_of_birth = SanitizedDate(req'.body.date_of_birth)
               /\ d.date_of_death = SanitizedDate(req'.body.date_of_death)
               /\ bookinstances' = bookinstances /\ books' = books
               /\ out' = <<Redirect(<<"/catalog/author/", d._id>>)>>
       /\ (Handles("bookinstance_create_post")
             /\ BookInstanceCreateAccepts(req'.body)) =>
            \E d \in bookinstances' :
               /\ d._id \notin Ids(bookinstances)
               /\ bookinstances' = bookinstances \cup {d}
               /\ Cardinality(bookinstances') = Cardinality(bookinstances) + 1
               /\ d.book = SanitizedText(req'.body.book)
               /\ d.imprint = SanitizedText(req'.body.imprint)
               /\ d.status = Str(Escape(AsString(req'.body.status)))
               /\ d.due_back = SanitizedDate(req'.body.due_back)
               /\ authors' = authors /\ books' = books
               /\ out' = <<Redirect(<<"/catalog/bookinstance/", d._id>>)>>]_vars

\* An Author created from a padded first name and no dates, while a created
\* BookInstance is in the store.
C4_Witness ==
    /\ req.handler = "author_create_post"
    /\ req.body.first_name = Str(<<" ", "a">>)
    /\ req.body.date_of_birth = Undefined
    /\ \E d \in authors :
          /\ d._id = nextId - 1
          /\ d.first_name = Str(<<"a">>)
          /\ d.date_of_birth = Undefined
          /\ out = <<Redirect(<<"/catalog/author/", d._id>>)>>
    /\ \E i \in bookinstances : i.imprint = Str(<<"&lt;">>)

\* C5: a create_post or update_post submission that fails validation leaves
\* the data store as it was.
C5_InvalidPostKeepsStore ==
    [][(\/ Handles("author_create_post") /\ ~AuthorCreateAccepts(req'.body)
        \/ Handles("author_update_post") /\ ~AuthorUpdateAccepts(req'.body)
        \/ Handles("bookinstance_create_post")
             /\ ~BookInstanceCreateAccepts(req'.body)
        \/ Handles("bookinstance_update_post")
             /\ ~BookInstanceUpdateAccepts(req'.body)) =>
          StoreUnchanged]_vars

\* A rejected update of a stored BookInstance.
C5_Witness ==
    /\ req.handler = "bookinstance_update_post"
    /\ ~BookInstanceUpdateAccepts(req.body)
    /\ FindById(bookinstances, req.id) # Null
    /\ out[1].call = "render"

\* The required fields of each create form.
RequiredOf(handler) ==
    IF handler = "author_create_post"
    THEN {"first_name", "family_name"}
    ELSE {"book", "imprint"}

FormOf(handler) ==
    IF handler = "author_create_post"
    THEN "author_form.ejs"
    ELSE "bookinstance_form.ejs"

\* C6: a create_post submission with a required field missing renders the
\* form view again, with the sanitized values and an error entry for the
\* missing field; it neither redirects nor forwards an error to next.
C6_MissingFieldRendersForm ==
    (req.handler \in {"author_create_post", "bookinstance_create_post"}) =>
        \A f \in RequiredOf(req.handler) :
            Missing(req.body[f]) =>
                /\ Len(out) = 1
                /\ out[1].call = "render"
                /\ out[1].locals.route = FormOf(req.handler)
                /\ \E i \in DOMAIN out[1].locals.errors :
                       out[1].locals.errors[i].path = f

\* C7: an update_post with valid fields keeps the set of stored identifiers
\* of its kind (also when the path id matches nothing); a stored entity named
\* by the path id afterwards holds that id with the sanitized submitted
\* values, and every other entity is unchanged.
C7_UpdateKeepsIds ==
    [][/\ (Handles("author_update_post") /\ AuthorUpdateAccepts(req'.body)) =>
            /\ Ids(authors') = Ids(authors)
            /\ Cardinality(authors') = Cardinality(authors)
            /\ \A d \in authors : d._id # req'.id => d \in authors'
            /\ bookinstances' = bookinstances /\ books' = books
            /\ FindById(authors, req'.id) # Null =>
                  FindById(authors', req'.id) =
                      [_id |-> req'.id,
                       first_name |-> SanitizedText(req'.body.first_name),
                       family_name |-> SanitizedText(req'.body.family_name),
                       date_of_birth |-> SanitizedText(req'.body.date_of_birth),
                       date_of_death |-> SanitizedText(req'.body.date_of_death)]
       /\ (Handles("bookinstance_update_post")
             /\ BookInstanceUpdateAccepts(req'.body)) =>
            /\ Ids(bookinstances') = Ids(bookinstances)
            /\ Cardinality(bookinstances') = Cardinality(bookinstances)
            /\ \A d \in bookinstances : d._id # req'.id => d \in bookinstances'
            /\ authors' = authors /\ books' = books
            /\ FindById(bookinstances, req'.id) # Null =>
                  FindById(bookinstances', req'.id) =
                      [_id |-> req'.id,
                       book |-> SanitizedText(req'.body.book),
                       imprint |-> SanitizedText(req'.body.imprint),
                       status |-> SanitizedText(req'.body.status),
                       due_back |-> SanitizedText(req'.body.due_back)]]_vars

\* A stored Author updated to a name with markup, with another Author stored.
C7_Witness ==
    /\ req.handler = "author_update_post"
    /\ req.body.family_name = Str(<<"<">>)
    /\ \E d \in authors : d._id = req.id /\ d.family_name = Str(<<"&lt;">>)
    /\ \E d \in authors : d._id # req.id
    /\ out = <<Redirect(<<"/catalog/author/", req.id>>)>>

\* C8: an update_post whose fields pass validation redirects to the detail
\* path of the path id, whether or not an entity with that id is stored.
C8_ValidUpdateRedirects ==
    /\ (req.handler = "author_update_post" /\ AuthorUpdateAccepts(req.body)) =>
           out = <<Redirect(<<"/catalog/author/", req.id>>)>>
    /\ (req.handler = "bookinstance_update_post"
          /\ BookInstanceUpdateAccepts(req.body)) =>
           out = <<Redirect(<<"/catalog/bookinstance/", req.id>>)>>

\* C9: every handler invocation makes exactly one response call: one render,
\* one redirect or one error forwarded to next.
C9_OneOutcome == served > 0 => Len(out) = 1

\* C10: update_post rejects a submission exactly when create_post of the same
\* kind rejects it.
C10_UpdateValidatesAsCreate ==
    /\ req.handler = "author_update_post" =>
           (out[1].call = "render" <=> ~AuthorCreateAccepts(req.body))
    /\ req.handler = "bookinstance_update_post" =>
           (out[1].call = "render" <=> ~BookInstanceCreateAccepts(req.body))

\* The store calls that write.
Mutations ==
    {"Author.save", "Author.findByIdAndRemove", "Author.findByIdAndUpdate",
     "BookInstance.save", "BookInstance.findByIdAndRemove",
     "BookInstance.findByIdAndUpdate"}

\* C11: when a store call a handler issued rejects (alone, or as one of the
\* reads awaited jointly), the handler forwards that error to next once and
\* makes no other call on the response, the store is left as it was and no
\* writing call is issued after the failed call, and the failed call is not
\* issued again.
C11_StoreFailureForwarded ==
    [][(served' = served + 1 /\ \E i \in DOMAIN io' : io'[i] = fault') =>
          /\ out' = <<Thrown(fault')>>
          /\ StoreUnchanged
          /\ \A i, j \in DOMAIN io' :
                (io'[i] = fault' /\ j > i) => io'[j] \notin Mutations
          /\ Cardinality({i \in DOMAIN io' : io'[i] = fault'}) = 1]_vars

\* One of the two reads of author_delete_post rejects for a stored Author
\* without books, whose removal would otherwise have followed.
C11_Witness ==
    /\ req.handler = "author_delete_post"
    /\ fault = "Book.find"
    /\ io = <<"Author.findById", "Book.find">>
    /\ out = <<Thrown("Book.find")>>
    /\ FindById(authors, req.id) # Null
    /\ BooksByAuthor(req.id) = {}

====
